---- MODULE Spec2Model ----
(***************************************************************************)
(* Model of pydantic/decorator.py: the validate_arguments decorator.       *)
(*                                                                         *)
(* A callable is described by its signature (an ordered list of            *)
(* parameters).  validate_arguments builds a ValidatedFunction from it     *)
(* (__init__), and every call of the wrapper runs build_values, the        *)
(* validation by the model and execute, which re-invokes raw_function.     *)
(***************************************************************************)
EXTENDS Integers, Sequences, FiniteSets, TLC

(***************************************************************************)
(* Bounds of the model.                                                    *)
(***************************************************************************)
MaxFixed == 2      \* positional (positional-only / positional-or-keyword) parameters
MaxPosArgs == 3    \* positional arguments of one call
MaxKw == 2         \* keyword arguments of one call

(***************************************************************************)
(* Program constants.                                                      *)
(***************************************************************************)
ALT_VAR_ARGS == "var__args"
ALT_VAR_KWARGS == "var__kwargs"

\* inspect.Parameter kinds
POSITIONAL_ONLY == "POSITIONAL_ONLY"
POSITIONAL_OR_KEYWORD == "POSITIONAL_OR_KEYWORD"
VAR_POSITIONAL == "VAR_POSITIONAL"
KEYWORD_ONLY == "KEYWORD_ONLY"
VAR_KEYWORD == "VAR_KEYWORD"

(***************************************************************************)
(* Python values.  Arguments are opaque tokens (ints with an identity);    *)
(* build_values creates lists and dicts, validation creates tuples.        *)
(***************************************************************************)
PyInt(n) == [type |-> "int", id |-> n]
PyList(s) == [type |-> "list", items |-> s]
PyTuple(s) == [type |-> "tuple", items |-> s]
PyDict(d) == [type |-> "dict", entries |-> d]

(***************************************************************************)
(* Python dicts keep insertion order: a dict is a sequence of entries with *)
(* distinct keys.                                                          *)
(***************************************************************************)
Entry(k, v) == [k |-> k, v |-> v]
EmptyDict == << >>
Keys(d) == {d[i].k : i \in 1..Len(d)}
Get(d, key) == d[CHOOSE i \in 1..Len(d) : d[i].k = key].v
\* d[key] = val: an existing key keeps its position, a new key is appended
DictSet(d, key, val) ==
    IF key \in Keys(d)
    THEN [i \in 1..Len(d) |-> IF d[i].k = key THEN Entry(key, val) ELSE d[i]]
    ELSE Append(d, Entry(key, val))
\* d without key (d.pop(key) leaves this behind)
DictDel(d, key) == SelectSeq(d, LAMBDA e : e.k # key)
\* d.update(other)
RECURSIVE DictUpdate(_, _)
DictUpdate(d, other) ==
    IF other = << >> THEN d
    ELSE DictUpdate(DictSet(d, Head(other).k, Head(other).v), Tail(other))

(***************************************************************************)
(* Signatures: the parameters inspect.signature reports, in declaration    *)
(* order.  Python only admits positional-only, then positional-or-keyword, *)
(* then var-positional, then keyword-only, then var-keyword; names are     *)
(* distinct; among the positional parameters none without a default        *)
(* follows one with a default.  Parameters carry no annotation, so every   *)
(* fixed field has type Any.                                               *)
(***************************************************************************)
FixedNames == {"a", "b", "args", "kwargs", ALT_VAR_ARGS}
VarPositionalNames == {"args", "rest", ALT_VAR_ARGS}
VarKeywordNames == {"kwargs", "kw", ALT_VAR_KWARGS}
KeywordOnlyNames == {"k", ALT_VAR_KWARGS}

Param(n, k, d) == [name |-> n, kind |-> k, has_default |-> d]

PositionalParams ==
    {Param(n, k, d) : n \in FixedNames, k \in {POSITIONAL_ONLY, POSITIONAL_OR_KEYWORD},
                      d \in BOOLEAN}

PositionalOK(s) ==
    \A i \in 1..Len(s) : \A j \in 1..Len(s) :
        i < j => /\ ~(s[i].kind = POSITIONAL_OR_KEYWORD /\ s[j].kind = POSITIONAL_ONLY)
                 /\ ~(s[i].has_default /\ ~s[j].has_default)

PositionalParts ==
    UNION {{s \in [1..n -> PositionalParams] : PositionalOK(s)} : n \in 0..MaxFixed}
VarPositionalParts ==
    {<< >>} \cup {<<Param(n, VAR_POSITIONAL, FALSE)>> : n \in VarPositionalNames}
\* a keyword-only parameter is modelled with a default (a required field is
\* covered by the positional kinds: line 65 treats every kind alike)
KeywordOnlyParts ==
    {<< >>} \cup {<<Param(n, KEYWORD_ONLY, TRUE)>> : n \in KeywordOnlyNames}
VarKeywordParts ==
    {<< >>} \cup {<<Param(n, VAR_KEYWORD, FALSE)>> : n \in VarKeywordNames}

ParamNames(s) == {s[i].name : i \in 1..Len(s)}
UniqueNames(s) == \A i \in 1..Len(s) : \A j \in 1..Len(s) : s[i].name = s[j].name => i = j

\* plain names are interchangeable: "b" is only used for a second plain
\* positional parameter, after "a" and next to no other positional name
Canonical(s) ==
    "b" \in ParamNames(s) =>
        {s[i].name : i \in {j \in 1..Len(s) : s[j].kind \in {POSITIONAL_ONLY,
                                                             POSITIONAL_OR_KEYWORD}}}
            = {"a", "b"}
        /\ \A j \in 1..Len(s) : s[j].name = "b" => \E i \in 1..(j - 1) : s[i].name = "a"

Signatures ==
    {s \in {p \o v \o k \o w : p \in PositionalParts, v \in VarPositionalParts,
                               k \in KeywordOnlyParts, w \in VarKeywordParts} :
        UniqueNames(s) /\ Canonical(s)}

(***************************************************************************)
(* State.                                                                  *)
(***************************************************************************)
VARIABLES
    function,        \* the decorated callable (its signature)
    wrapped,         \* "no", "yes" or "DecoratorSetupError": outcome of validate_arguments
    vd,              \* the ValidatedFunction instance
    pc,              \* position of the current wrapper call
    args, kwargs,    \* arguments of the current wrapper call
    values, has_var_args, has_var_kwargs,   \* result of build_values
    m,               \* the validated model instance
    raised,          \* exception the current call ended with, or "none"
    raw_calls        \* invocations of raw_function made by the current call

callvars == <<args, kwargs, values, has_var_args, has_var_kwargs, m, raised, raw_calls>>
vars == <<function, wrapped, vd, pc, callvars>>

(***************************************************************************)
(* ValidatedFunction.__init__                                              *)
(***************************************************************************)
\* (variant: the check forgets the keyword alias)
ReservedNameClashArgsOnly(parameters) ==
    ParamNames(parameters) \cap {ALT_VAR_ARGS} # {}

\* parameters.keys() & {ALT_VAR_ARGS, ALT_VAR_KWARGS}
ReservedNameClash(parameters) ==
    ParamNames(parameters) \cap {ALT_VAR_ARGS, ALT_VAR_KWARGS} # {}

\* (variant: the indexes are counted from 1)
ArgMappingFromOne(parameters) ==
    [i \in {j \in 1..Len(parameters) :
                parameters[j].kind \in {POSITIONAL_ONLY, POSITIONAL_OR_KEYWORD}}
        |-> parameters[i].name]

\* self.arg_mapping: index (from 0) of each positional parameter -> name
ArgMapping(parameters) ==
    [i \in {j \in 0..(Len(parameters) - 1) :
                parameters[j + 1].kind \in {POSITIONAL_ONLY, POSITIONAL_OR_KEYWORD}}
        |-> parameters[i + 1].name]

PositionalOnlyArgs(parameters) ==
    {parameters[i].name : i \in {j \in 1..Len(parameters) :
                                    parameters[j].kind = POSITIONAL_ONLY}}

\* fields: name -> (type, default); "required" stands for the default "..."
Field(p) ==
    CASE p.kind = VAR_POSITIONAL -> [name |-> p.name, type |-> "Tuple", required |-> FALSE]
      [] p.kind = VAR_KEYWORD -> [name |-> p.name, type |-> "Dict", required |-> FALSE]
      [] OTHER -> [name |-> p.name, type |-> "Any", required |-> ~p.has_default]
Fields(parameters) == [i \in 1..Len(parameters) |-> Field(parameters[i])]

AllowsVarArgs(parameters) == \E i \in 1..Len(parameters) : parameters[i].kind = VAR_POSITIONAL
AllowsVarKwargs(parameters) == \E i \in 1..Len(parameters) : parameters[i].kind = VAR_KEYWORD

\* the loop only stores the declared names in _args_field_name / _kwargs_field_name
PrivateArgsFieldName(parameters) ==
    IF AllowsVarArgs(parameters)
    THEN (CHOOSE p \in {parameters[i] : i \in 1..Len(parameters)} :
              p.kind = VAR_POSITIONAL).name
    ELSE "unset"
PrivateKwargsFieldName(parameters) ==
    IF AllowsVarKwargs(parameters)
    THEN (CHOOSE p \in {parameters[i] : i \in 1..Len(parameters)} :
              p.kind = VAR_KEYWORD).name
    ELSE "unset"

\* (variant: the clash with a field named 'args' is not avoided)
ArgsFieldNameNoAlias(parameters) == "args"

\* self.args_field_name: 'args', unless that clashes with a field and no *var is declared
ArgsFieldName(parameters) ==
    IF ~AllowsVarArgs(parameters) /\ "args" \in ParamNames(parameters)
    THEN ALT_VAR_ARGS ELSE "args"
KwargsFieldName(parameters) ==
    IF ~AllowsVarKwargs(parameters) /\ "kwargs" \in ParamNames(parameters)
    THEN ALT_VAR_KWARGS ELSE "kwargs"

ValidatedFunction(f) ==
    [raw_function |-> f,
     arg_mapping |-> ArgMapping(f),
     args_field_name |-> ArgsFieldName(f),
     kwargs_field_name |-> KwargsFieldName(f),
     private_args_field_name |-> PrivateArgsFieldName(f),
     private_kwargs_field_name |-> PrivateKwargsFieldName(f),
     positional_only_args |-> PositionalOnlyArgs(f),
     model |-> Fields(f)]

\* no instance exists before decoration or after a DecoratorSetupError
NoInstance ==
    [raw_function |-> << >>, arg_mapping |-> << >>, args_field_name |-> "unset",
     kwargs_field_name |-> "unset", private_args_field_name |-> "unset",
     private_kwargs_field_name |-> "unset", positional_only_args |-> {}, model |-> << >>]

NoModel == [fields_set |-> {}, dict |-> EmptyDict]

IdleCall ==
    /\ args = << >> /\ kwargs = EmptyDict /\ values = EmptyDict
    /\ has_var_args = FALSE /\ has_var_kwargs = FALSE
    /\ m = NoModel /\ raised = "none" /\ raw_calls = << >>

Init ==
    /\ function \in Signatures
    /\ wrapped = "no"
    /\ vd = NoInstance
    /\ pc = "idle"
    /\ IdleCall

\* validate_arguments(function)
validate_arguments ==
    /\ wrapped = "no"
    /\ IF ReservedNameClash(function)
       THEN wrapped' = "DecoratorSetupError" /\ vd' = vd
       ELSE wrapped' = "yes" /\ vd' = ValidatedFunction(function)
    /\ UNCHANGED <<function, pc, callvars>>

(***************************************************************************)
(* Arguments of a wrapper call.  Positional argument i carries token i,    *)
(* a keyword argument carries a token of its own or a one-element list.    *)
(* Keywords are drawn from the declared names and one undeclared name      *)
(* (build_values treats every undeclared name alike); a dict holds each    *)
(* key once, and the order of the keywords makes no difference to          *)
(* build_values, so they are listed in the order of KeywordNames.          *)
(***************************************************************************)
KeywordNames == <<"a", "b", "k", "args", "kwargs", "rest", "kw", "x">>
KeywordToken(i) == PyInt(10 + i)
\* a keyword that may name a var-positional field also comes as a list
KeywordValues(i) ==
    {KeywordToken(i)} \cup
    (IF KeywordNames[i] \in {"args", "rest"} THEN {PyList(<<KeywordToken(i)>>)} ELSE {})

PositionalArguments == {[i \in 1..n |-> PyInt(i)] : n \in 0..MaxPosArgs}

RECURSIVE KeywordDicts(_, _, _)
\* the dicts of at most n entries over the keys usable[from..]
KeywordDicts(usable, from, n) ==
    IF n = 0 \/ from > Len(usable)
    THEN {EmptyDict}
    ELSE KeywordDicts(usable, from + 1, n) \cup
         {<<Entry(KeywordNames[usable[from]], v)>> \o d :
             v \in KeywordValues(usable[from]), d \in KeywordDicts(usable, from + 1, n - 1)}

KeywordArguments(f) ==
    KeywordDicts(SelectSeq([i \in 1..Len(KeywordNames) |-> i],
                           LAMBDA i : KeywordNames[i] \in ParamNames(f) \cup {"x"}),
                 1, MaxKw)

(***************************************************************************)
(* ValidatedFunction.build_values                                          *)
(***************************************************************************)
FieldNames == {vd.model[i].name : i \in 1..Len(vd.model)}

\* the walk over enumerate(args), from index i (counted from 0)
RECURSIVE BindPositional(_, _, _)
BindPositional(a, i, vals) ==
    IF i >= Len(a)
    THEN [values |-> vals, has_var_args |-> FALSE]
    ELSE IF i \in DOMAIN vd.arg_mapping
         THEN BindPositional(a, i + 1, DictSet(vals, vd.arg_mapping[i], a[i + 1]))
         ELSE [values |-> DictSet(vals, vd.args_field_name,
                                  PyList(SubSeq(a, i + 1, Len(a)))),
               has_var_args |-> TRUE]

\* (variant: a keyword naming a positional-only parameter is stored, not rejected)
RECURSIVE BindKeywordsNoReject(_, _, _)
BindKeywordsNoReject(kw, vals, var_kwargs) ==
    IF kw = << >>
    THEN [raised |-> "none", values |-> vals, var_kwargs |-> var_kwargs]
    ELSE IF Head(kw).k \in FieldNames
         THEN BindKeywordsNoReject(Tail(kw), DictSet(vals, Head(kw).k, Head(kw).v), var_kwargs)
         ELSE BindKeywordsNoReject(Tail(kw), vals, DictSet(var_kwargs, Head(kw).k, Head(kw).v))

\* the loop over kwargs.items()
RECURSIVE BindKeywords(_, _, _)
BindKeywords(kw, vals, var_kwargs) ==
    IF kw = << >>
    THEN [raised |-> "none", values |-> vals, var_kwargs |-> var_kwargs]
    ELSE LET k == Head(kw).k
             v == Head(kw).v
         IN IF k \in FieldNames
            THEN IF k \in vd.positional_only_args
                 THEN [raised |-> "NotImplementedError", values |-> vals,
                       var_kwargs |-> var_kwargs]
                 ELSE BindKeywords(Tail(kw), DictSet(vals, k, v), var_kwargs)
            ELSE BindKeywords(Tail(kw), vals, DictSet(var_kwargs, k, v))

build_values(a, kw) ==
    LET pos == BindPositional(a, 0, EmptyDict)
        key == BindKeywords(kw, pos.values, EmptyDict)
    IN IF key.raised # "none"
       THEN [raised |-> key.raised, values |-> key.values,
             has_var_args |-> pos.has_var_args, has_var_kwargs |-> FALSE]
       ELSE IF key.var_kwargs # EmptyDict
            THEN [raised |-> "none",
                  values |-> DictSet(key.values, vd.kwargs_field_name, PyDict(key.var_kwargs)),
                  has_var_args |-> pos.has_var_args, has_var_kwargs |-> TRUE]
            ELSE [raised |-> "none", values |-> key.values,
                  has_var_args |-> pos.has_var_args, has_var_kwargs |-> FALSE]

\* __call__, first statement: values, has_var_args, has_var_kwargs = self.build_values(args, kwargs)
Call ==
    /\ wrapped = "yes" /\ pc = "idle"
    /\ \E a \in PositionalArguments : \E kw \in KeywordArguments(function) :
          LET b == build_values(a, kw)
          IN /\ args' = a /\ kwargs' = kw
             /\ values' = b.values
             /\ has_var_args' = b.has_var_args
             /\ has_var_kwargs' = b.has_var_kwargs
             /\ raised' = b.raised
             /\ pc' = IF b.raised = "none" THEN "validate" ELSE "raised"
    /\ UNCHANGED <<function, wrapped, vd, m, raw_calls>>

(***************************************************************************)
(* The model built by create_model with Extra.forbid, called with values.  *)
(***************************************************************************)
\* what a field's type makes of a value: the validated value, or a failure
ValidationFailure == [type |-> "error"]
ValidateField(type, v) ==
    CASE type = "Any" -> v
      [] type = "Tuple" -> IF v.type \in {"list", "tuple"} THEN PyTuple(v.items)
                           ELSE ValidationFailure
      [] type = "Dict" -> IF v.type = "dict" THEN v ELSE ValidationFailure

PyDefault(name) == [type |-> "default", of |-> name]

ModelValid(vals) ==
    /\ Keys(vals) \subseteq FieldNames                       \* extra = Extra.forbid
    /\ \A i \in 1..Len(vd.model) :
          LET fld == vd.model[i]
          IN IF fld.name \in Keys(vals)
             THEN ValidateField(fld.type, Get(vals, fld.name)) # ValidationFailure
             ELSE ~fld.required

\* the instance: every field in declaration order, defaults filled in
ModelInstance(vals) ==
    [fields_set |-> Keys(vals),
     dict |-> [i \in 1..Len(vd.model) |->
                  LET fld == vd.model[i]
                  IN Entry(fld.name,
                           IF fld.name \in Keys(vals)
                           THEN ValidateField(fld.type, Get(vals, fld.name))
                           ELSE PyDefault(fld.name))]]

\* __call__, second statement: m = self.model( **values )
Validate ==
    /\ pc = "validate"
    /\ IF ModelValid(values)
       THEN m' = ModelInstance(values) /\ raised' = raised /\ pc' = "execute"
       ELSE m' = m /\ raised' = "ValidationError" /\ pc' = "raised"
    /\ UNCHANGED <<function, wrapped, vd, args, kwargs, values, has_var_args,
                   has_var_kwargs, raw_calls>>


(***************************************************************************)
(* ValidatedFunction.execute                                               *)
(***************************************************************************)
\* d = {k: v for k, v in m._iter() if k in m.__fields_set__}
ExplicitValues(mi) == SelectSeq(mi.dict, LAMBDA e : e.k \in mi.fields_set)

\* what "args_ += value" appends; iterating a dict yields its keys
Iterate(v) ==
    CASE v.type \in {"list", "tuple"} -> v.items
      [] v.type = "dict" -> [i \in 1..Len(v.entries) |-> [type |-> "str", s |-> v.entries[i].k]]

\* if has_var_kwargs: d.update(d.pop(self.kwargs_field_name))
MergeVarKwargs(d, hvk) ==
    IF ~hvk THEN [raised |-> "none", d |-> d]
    ELSE IF vd.kwargs_field_name \notin Keys(d)
         THEN [raised |-> "KeyError", d |-> d]
         ELSE LET popped == Get(d, vd.kwargs_field_name)
              IN IF popped.type # "dict"
                 THEN [raised |-> "TypeError", d |-> DictDel(d, vd.kwargs_field_name)]
                 ELSE [raised |-> "none",
                       d |-> DictUpdate(DictDel(d, vd.kwargs_field_name), popped.entries)]

\* the loop of the has_var_args branch over d.items()
RECURSIVE VarArgsLoop(_, _, _, _)
VarArgsLoop(d, in_kwargs, args_, kw) ==
    IF d = << >>
    THEN [raised |-> "none", args |-> args_, kwargs |-> kw]
    ELSE LET name == Head(d).k
             value == Head(d).v
         IN IF in_kwargs
            THEN VarArgsLoop(Tail(d), in_kwargs, args_, DictSet(kw, name, value))
            ELSE IF name = vd.args_field_name
                 THEN IF value.type \in {"list", "tuple", "dict"}
                      THEN VarArgsLoop(Tail(d), TRUE, args_ \o Iterate(value), kw)
                      ELSE [raised |-> "TypeError", args |-> args_, kwargs |-> kw]
                 ELSE VarArgsLoop(Tail(d), in_kwargs, Append(args_, value), kw)

\* the loop of the positional_only_args branch over d.items()
PositionalOnlySplit(d) ==
    [raised |-> "none",
     args |-> LET po == SelectSeq(d, LAMBDA e : e.k \in vd.positional_only_args)
              IN [i \in 1..Len(po) |-> po[i].v],
     kwargs |-> SelectSeq(d, LAMBDA e : e.k \notin vd.positional_only_args)]

\* the call of raw_function that execute makes, or the exception it raises before
execute(mi, hva, hvk) ==
    LET merged == MergeVarKwargs(ExplicitValues(mi), hvk)
    IN IF merged.raised # "none"
       THEN [raised |-> merged.raised, args |-> << >>, kwargs |-> EmptyDict]
       ELSE IF hva
            THEN VarArgsLoop(merged.d, FALSE, << >>, EmptyDict)
            ELSE IF vd.positional_only_args # {}
                 THEN PositionalOnlySplit(merged.d)
                 ELSE [raised |-> "none", args |-> << >>, kwargs |-> merged.d]

\* __call__, third statement: return self.execute(m, has_var_args, has_var_kwargs)
Execute ==
    /\ pc = "execute"
    /\ LET r == execute(m, has_var_args, has_var_kwargs)
       IN IF r.raised = "none"
          THEN /\ raw_calls' = Append(raw_calls, [args |-> r.args, kwargs |-> r.kwargs])
               /\ raised' = raised
               /\ pc' = "returned"
          ELSE /\ raw_calls' = raw_calls
               /\ raised' = r.raised
               /\ pc' = "raised"
    /\ UNCHANGED <<function, wrapped, vd, args, kwargs, values, has_var_args,
                   has_var_kwargs, m>>

\* the call is over (returned or raised); nothing of it is kept
Return ==
    /\ pc \in {"returned", "raised"}
    /\ pc' = "idle"
    /\ args' = << >> /\ kwargs' = EmptyDict /\ values' = EmptyDict
    /\ has_var_args' = FALSE /\ has_var_kwargs' = FALSE
    /\ m' = NoModel /\ raised' = "none" /\ raw_calls' = << >>
    /\ UNCHANGED <<function, wrapped, vd>>

(***************************************************************************)
(* The call of raw_function that execute makes, and a direct call of the   *)
(* callable: how Python binds a positional list and a keyword dict to the  *)
(* parameters of a signature.                                              *)
(***************************************************************************)
PyMissing == [type |-> "missing"]

PositionalRank(f, i) ==
    Cardinality({j \in 1..i : f[j].kind \in {POSITIONAL_ONLY, POSITIONAL_OR_KEYWORD}})
NumPositional(f) == PositionalRank(f, Len(f))
KeywordCapable(f) ==
    {f[i].name : i \in {j \in 1..Len(f) : f[j].kind \in {POSITIONAL_OR_KEYWORD, KEYWORD_ONLY}}}

PyBound(f, a, kw, i) ==
    LET p == f[i]
        r == PositionalRank(f, i)
        unsupplied == IF p.has_default THEN PyDefault(p.name) ELSE PyMissing
    IN CASE p.kind = POSITIONAL_ONLY -> IF r <= Len(a) THEN a[r] ELSE unsupplied
         [] p.kind = POSITIONAL_OR_KEYWORD ->
                IF r <= Len(a) THEN a[r]
                ELSE IF p.name \in Keys(kw) THEN Get(kw, p.name) ELSE unsupplied
         [] p.kind = KEYWORD_ONLY ->
                IF p.name \in Keys(kw) THEN Get(kw, p.name) ELSE unsupplied
         [] p.kind = VAR_POSITIONAL ->
                PyTuple(SubSeq(a, NumPositional(f) + 1, Len(a)))
         [] p.kind = VAR_KEYWORD ->
                PyDict(SelectSeq(kw, LAMBDA e : e.k \notin KeywordCapable(f)))

PyCall(f, a, kw) ==
    LET bound == [i \in 1..Len(f) |-> PyBound(f, a, kw, i)]
    IN [ok |-> /\ (Len(a) > NumPositional(f) => AllowsVarArgs(f))
               /\ (~AllowsVarKwargs(f) => Keys(kw) \subseteq KeywordCapable(f))
               /\ \A i \in 1..Len(f) :
                     /\ ~(/\ f[i].kind = POSITIONAL_OR_KEYWORD
                          /\ PositionalRank(f, i) <= Len(a)
                          /\ f[i].name \in Keys(kw))
                     /\ bound[i] # PyMissing,
        bound |-> bound]

Next == validate_arguments \/ Call \/ Validate \/ Execute \/ Return
Spec == Init /\ [][Next]_vars


(***************************************************************************)
(* Vocabulary of the properties.                                           *)
(***************************************************************************)
\* build_values has returned for the current call
Bound == pc \in {"validate", "execute", "returned"} \/ (pc = "raised" /\ raised # "NotImplementedError")
\* the current call is over
Finished == pc \in {"returned", "raised"}
\* positional arguments beyond the positional parameters
Overflow == SubSeq(args, NumPositional(function) + 1, Len(args))
\* keyword arguments that name no parameter
Undeclared == SelectSeq(kwargs, LAMBDA e : e.k \notin ParamNames(function))
NamesOfKind(K) == {function[i].name : i \in {j \in 1..Len(function) : function[j].kind \in K}}
FixedParamNames == NamesOfKind({POSITIONAL_ONLY, POSITIONAL_OR_KEYWORD, KEYWORD_ONLY})
\* the values the caller supplied for the parameter at index i of the signature
SuppliedValues(i) ==
    LET p == function[i]
        r == PositionalRank(function, i)
    IN (IF p.kind \in {POSITIONAL_ONLY, POSITIONAL_OR_KEYWORD} /\ r <= Len(args)
        THEN {args[r]} ELSE {})
       \cup
       (IF p.kind \in {POSITIONAL_OR_KEYWORD, KEYWORD_ONLY} /\ p.name \in Keys(kwargs)
        THEN {Get(kwargs, p.name)} ELSE {})
\* the caller supplied the parameter at index i: positionally, by a keyword of
\* its name, or (a variadic parameter) by overflow arguments
Supplied(i) ==
    \/ SuppliedValues(i) # {}
    \/ function[i].name \in Keys(kwargs)
    \/ function[i].kind = VAR_POSITIONAL /\ Overflow # << >>
    \/ function[i].kind = VAR_KEYWORD /\ Undeclared # << >>

(***************************************************************************)
(* C1: when the callable declares a var-positional and a var-keyword       *)
(* parameter, a call with overflow positional arguments and only           *)
(* undeclared keywords (at least one) binds the overflow list to the       *)
(* declared var-positional field and the keywords to the declared          *)
(* var-keyword field, and ends by invoking the callable with the           *)
(* positional list and keyword dict of the call.                           *)
(***************************************************************************)
C1_Case ==
    /\ wrapped = "yes"
    /\ AllowsVarArgs(function) /\ AllowsVarKwargs(function)
    /\ Overflow # << >>
    /\ kwargs # EmptyDict /\ Undeclared = kwargs

C1_DeclaredVariadicsCarryOverflow ==
    C1_Case =>
        /\ Bound =>
              /\ NamesOfKind({VAR_POSITIONAL}) \cup NamesOfKind({VAR_KEYWORD}) \subseteq Keys(values)
              /\ \A n \in NamesOfKind({VAR_POSITIONAL}) : Get(values, n) = PyList(Overflow)
              /\ \A n \in NamesOfKind({VAR_KEYWORD}) : Get(values, n) = PyDict(kwargs)
        /\ Finished => raw_calls = <<[args |-> args, kwargs |-> kwargs]>>

(***************************************************************************)
(* C2: for a callable whose parameters are all positional-or-keyword, a    *)
(* finished call that is valid as a direct call has returned after         *)
(* exactly one invocation of the callable, and that invocation binds       *)
(* every parameter as the direct call binds it.                            *)
(***************************************************************************)
AllPositionalOrKeyword == \A i \in 1..Len(function) : function[i].kind = POSITIONAL_OR_KEYWORD

C2_SameBindingAsDirectCall ==
    (/\ wrapped = "yes" /\ AllPositionalOrKeyword /\ Finished
     /\ PyCall(function, args, kwargs).ok)
    => /\ pc = "returned"
       /\ Len(raw_calls) = 1
       /\ PyCall(function, raw_calls[1].args, raw_calls[1].kwargs)
            = PyCall(function, args, kwargs)

C2_Witness ==
    /\ AllPositionalOrKeyword /\ Len(function) = 2 /\ ~function[1].has_default
    /\ pc = "returned" /\ Len(args) = 1 /\ Len(kwargs) = 1
    /\ PyCall(function, args, kwargs).ok
    /\ Len(raw_calls) = 1

(***************************************************************************)
(* C3: for a callable with a positional-only parameter, the reconstructed  *)
(* call passes the supplied positional-only parameters first in the        *)
(* positional list, in declaration order and with the values supplied,     *)
(* and none of them by keyword; without overflow positional arguments      *)
(* every other supplied fixed parameter is passed by keyword under its     *)
(* own name with a value the caller supplied for it.                       *)
(***************************************************************************)
NumPositionalOnly == Cardinality(NamesOfKind({POSITIONAL_ONLY}))
Min(x, y) == IF x <= y THEN x ELSE y

C3_PositionalOnlyReconstruction ==
    (wrapped = "yes" /\ NumPositionalOnly > 0 /\ pc = "returned")
    => LET call == raw_calls[1]
           n == Min(NumPositionalOnly, Len(args))
       IN /\ Len(call.args) >= n
          /\ SubSeq(call.args, 1, n) = SubSeq(args, 1, n)
          /\ Keys(call.kwargs) \cap NamesOfKind({POSITIONAL_ONLY}) = {}
          /\ Overflow = << >> =>
                \A i \in 1..Len(function) :
                    (function[i].kind \in {POSITIONAL_OR_KEYWORD, KEYWORD_ONLY} /\ Supplied(i))
                    => /\ function[i].name \in Keys(call.kwargs)
                       /\ Get(call.kwargs, function[i].name) \in SuppliedValues(i)

(***************************************************************************)
(* C4: when the callable declares no var-positional parameter but a fixed  *)
(* parameter named "args", the overflow field name is the reserved alias,  *)
(* build_values stores overflow positional arguments under the alias and   *)
(* only there, and the field "args" holds a value supplied for that        *)
(* parameter; likewise for "kwargs", the keyword alias and undeclared      *)
(* keywords.                                                               *)
(***************************************************************************)
C4_OverflowUsesAlias ==
    wrapped = "yes" =>
      /\ (~AllowsVarArgs(function) /\ "args" \in FixedParamNames) =>
            /\ vd.args_field_name = ALT_VAR_ARGS
            /\ Bound =>
                  /\ (Overflow # << >>) <=> (ALT_VAR_ARGS \in Keys(values))
                  /\ Overflow # << >> => Get(values, ALT_VAR_ARGS) = PyList(Overflow)
                  /\ \A i \in 1..Len(function) :
                        (function[i].name = "args" /\ "args" \in Keys(values))
                        => Get(values, "args") \in SuppliedValues(i)
      /\ (~AllowsVarKwargs(function) /\ "kwargs" \in FixedParamNames) =>
            /\ vd.kwargs_field_name = ALT_VAR_KWARGS
            /\ Bound =>
                  /\ (Undeclared # << >>) <=> (ALT_VAR_KWARGS \in Keys(values))
                  /\ Undeclared # << >> => Get(values, ALT_VAR_KWARGS) = PyDict(Undeclared)
                  /\ \A i \in 1..Len(function) :
                        (function[i].name = "kwargs" /\ "kwargs" \in Keys(values))
                        => Get(values, "kwargs") \in SuppliedValues(i)

\* f(args=...) called with three positional arguments
C4_Witness ==
    /\ Len(function) = 1 /\ function[1].name = "args" /\ function[1].has_default
    /\ pc = "validate" /\ Len(args) = 3 /\ kwargs = EmptyDict
    /\ values = <<Entry("args", PyInt(1)), Entry(ALT_VAR_ARGS, PyList(<<PyInt(2), PyInt(3)>>))>>

(***************************************************************************)
(* C5: decoration ends in DecoratorSetupError exactly when a parameter of  *)
(* the callable (of any kind) is named "var__args" or "var__kwargs"; then  *)
(* no instance exists and no call is ever started.                         *)
(***************************************************************************)
C5_ReservedNamesRejected ==
    /\ wrapped # "no" =>
          ((wrapped = "DecoratorSetupError")
             <=> (\E i \in 1..Len(function) : function[i].name \in {"var__args", "var__kwargs"}))
    /\ wrapped # "yes" => (vd = NoInstance /\ pc = "idle" /\ IdleCall)

C5_Witness ==
    /\ wrapped = "DecoratorSetupError"
    /\ \E i \in 1..Len(function) :
          function[i].name = "var__kwargs" /\ function[i].kind = KEYWORD_ONLY

(***************************************************************************)
(* C6: a parameter the caller did not supply is no key of the explicit     *)
(* values execute starts from, and the invocation of the callable leaves   *)
(* it to the callable's own default (an omitted variadic parameter stays   *)
(* empty).                                                                 *)
(***************************************************************************)
C6_OmittedNotPassed ==
    (wrapped = "yes" /\ pc \in {"execute", "returned"})
    => \A i \in 1..Len(function) :
          ~Supplied(i) =>
             /\ function[i].name \notin Keys(ExplicitValues(m))
             /\ pc = "returned" =>
                   PyCall(function, raw_calls[1].args, raw_calls[1].kwargs).bound[i]
                      \in {PyDefault(function[i].name), PyMissing, PyTuple(<< >>), PyDict(EmptyDict)}

(***************************************************************************)
(* C7: the callable is invoked only by a wrapper that was built, and only  *)
(* in a call whose binding and validation succeeded; a call that raised    *)
(* (always so when a keyword names a positional-only parameter) made no    *)
(* invocation and a call that returned made exactly one.                   *)
(***************************************************************************)
C7_InvokedOnlyAfterValidation ==
    /\ raw_calls # << >> =>
          /\ wrapped = "yes" /\ pc = "returned" /\ raised = "none"
          /\ build_values(args, kwargs).raised = "none"
          /\ values = build_values(args, kwargs).values
          /\ ModelValid(values)
          /\ m = ModelInstance(values)
    /\ pc = "raised" => (raw_calls = << >> /\ raised # "none")
    /\ pc = "returned" => Len(raw_calls) = 1
    /\ (pc # "idle" /\ Keys(kwargs) \cap NamesOfKind({POSITIONAL_ONLY}) # {})
          => (pc = "raised" /\ raised = "NotImplementedError")
    /\ (pc \in {"execute", "returned"}) => ModelValid(values)
    /\ (pc = "raised" /\ raised = "ValidationError") => ~ModelValid(values)

C7_Witness ==
    /\ pc = "returned" /\ Len(raw_calls) = 1
    /\ NumPositionalOnly > 0 /\ Len(args) > 0 /\ kwargs # EmptyDict

(***************************************************************************)
(* C8: in a built wrapper both overflow field names are fields of the      *)
(* model, and the values build_values returns have only fields as keys.    *)
(***************************************************************************)
C8_OverflowFieldsExist ==
    wrapped = "yes" =>
        /\ vd.args_field_name \in FieldNames
        /\ vd.kwargs_field_name \in FieldNames
        /\ Bound => Keys(values) \subseteq FieldNames

(***************************************************************************)
(* C9: in a built wrapper neither overflow field name is the name of a     *)
(* declared non-variadic parameter, so a bound declared parameter never    *)
(* holds anything but a value supplied for it.                             *)
(***************************************************************************)
C9_OverflowNeverShadows ==
    wrapped = "yes" =>
        /\ vd.args_field_name \notin FixedParamNames
        /\ vd.kwargs_field_name \notin FixedParamNames
        /\ Bound =>
              \A i \in 1..Len(function) :
                  (function[i].name \in FixedParamNames /\ function[i].name \in Keys(values))
                  => Get(values, function[i].name) \in SuppliedValues(i)

(***************************************************************************)
(* C10: when build_values returns, every positional argument of the call   *)
(* is the value of a key or an item of a list in values, and every         *)
(* keyword argument is the value of its key or an entry of a dict in       *)
(* values.                                                                 *)
(***************************************************************************)
Represented(v) ==
    \E j \in 1..Len(values) :
        \/ values[j].v = v
        \/ values[j].v.type = "list" /\ \E n \in 1..Len(values[j].v.items) : values[j].v.items[n] = v

C10_BindingLossless ==
    (wrapped = "yes" /\ Bound)
    => /\ \A i \in 1..Len(args) : Represented(args[i])
       /\ \A i \in 1..Len(kwargs) :
             \/ (kwargs[i].k \in Keys(values) /\ Get(values, kwargs[i].k) = kwargs[i].v)
             \/ \E j \in 1..Len(values) :
                   /\ values[j].v.type = "dict"
                   /\ \E n \in 1..Len(values[j].v.entries) : values[j].v.entries[n] = kwargs[i]

====
